---------------------------- MODULE Spec2Model ----------------------------
(***************************************************************************)
(* Work-stealing ThreadPool (src/ThreadPool.h) and the fork-join wrapper   *)
(* spawn_task_in_pool / quicksort_async (src/main.cpp).                    *)
(*                                                                         *)
(* Threads are the workers 0..n-1 and one client thread, MainT.  A step    *)
(* is one access to shared state: an atomic operation, or one critical     *)
(* section of a queue mutex or of the error-slot mutex.  The only place    *)
(* where a mutex stays held between two steps is the idle wait, between    *)
(* the predicate test and the block on the condition variable.            *)
(***************************************************************************)
EXTENDS Integers, Sequences, FiniteSets, TLC

\* Bounds of the model.
MaxWorkers == 2
MaxTasks == 3

Workers == 0..(MaxWorkers - 1)
MainT == MaxWorkers
Threads == 0..MaxWorkers
Tasks == 1..MaxTasks

VARIABLES
  n,            \* m_queues.size(): the constructor's argument
  m_queues,     \* per worker, the deque of task ids, front first
  m_index,      \* round-robin counter
  m_done,       \* shutdown flag
  pc,           \* per thread, its position in the code
  cur,          \* per worker, the task in `task` (0: none)
  src,          \* per worker, the queue its current task was taken from
  idx,          \* per thread, the queue index push_task computed
  stealI,       \* per worker, the steal loop's i
  arg,          \* per thread, the task it is submitting (0: none)
  dk,           \* the destructor's loop position
  kind,         \* per task: "none", "plain" (bare push_task), "wrapped" (spawn_task_in_pool)
  counter,      \* QuicksortState::counter
  except_set,   \* QuicksortState::except_set
  except_ptr,   \* QuicksortState::except_ptr (0: null, else the failing task)
  prom,         \* QuicksortState::prom: "unset", "value", "exception"
  prom_exc,     \* the exception stored in the promise
  got,          \* what fut.get() gave the client: -1 not called, 0 returned, else the error thrown
  runs,         \* history: per task, how many times its body was invoked
  raised,       \* history: the tasks whose body threw
  catchLog,     \* history: the failing tasks, in the order their wrappers took except_mtx
  setCalls,     \* history: calls of set_value / set_exception
  finalBy,      \* history: the task whose wrapper satisfied the promise (0: none)
  stamp,        \* history: per queued task, its rank among all pushes (0: not queued)
  atDone,       \* history: the tasks that were in a queue when m_done was set
  lateTakes,    \* history: per worker, the tasks it took while m_done was set
  array,        \* quicksort_job's array; array[i] of the code is array[i + 1] here
  input,        \* history: the array as the client filled it
  threshold,    \* quicksort_async's threshold
  jobs,         \* the sub-range tasks spawned and not yet taken by a worker
  sk,           \* per worker, the quicksort_job calls still to make, next first
  fr,           \* per worker, the locals of the quicksort_job call that partitions
  spawns,       \* history: the tasks spawned by quicksort_job
  holder        \* per mutex, the thread that holds it, where lock and unlock are steps

vars == <<n, m_queues, m_index, m_done, pc, cur, src, idx, stealI, arg, dk, kind,
          counter, except_set, except_ptr, prom, prom_exc, got,
          runs, raised, catchLog, setCalls, finalBy, stamp, atDone, lateTakes,
          array, input, threshold, jobs, sk, fr, spawns, holder>>

poolVars == <<n, m_queues, m_index, m_done>>
treeVars == <<counter, except_set, except_ptr, prom, prom_exc>>
histVars == <<runs, raised, catchLog, setCalls, finalBy>>
takeVars == <<stamp, atDone, lateTakes>>
localVars == <<cur, src, idx, stealI, arg, dk>>
sortVars == <<array, input, threshold, jobs, sk, fr, spawns>>

----------------------------------------------------------------------------
\* std::deque operations.
push_front(q, t) == <<t>> \o q
front(q) == q[1]
pop_front(q) == SubSeq(q, 2, Len(q))
back(q) == q[Len(q)]
\* Mutant of pop_back: the element read by back() is left in the deque.
pop_back_keep(q) == q
pop_back(q) == SubSeq(q, 1, Len(q) - 1)

\* The queue mutex of queue q is held between two steps only by worker q,
\* from the wait predicate's test to the block on the condition variable.
MutexFree(q) == pc[q] # "wait_block"

\* Whether task t is in queue q.
InQueue(q, t) == \E i \in 1..Len(m_queues[q]) : m_queues[q][i] = t

\* The number of push_front calls so far: the created tasks that are past it.
Pushed == Cardinality({t \in Tasks : kind[t] # "none"
                         /\ ~\E th \in Threads : arg[th] = t /\ pc[th] # "p_notify"})

\* The number of tasks created so far.
Created == Cardinality({t \in Tasks : kind[t] # "none"})

\* The wait_for predicate.
WaitPred(w) == m_queues[w] # <<>> \/ m_done

\* The steal loop's victim.
StealIdx(w, i) == (w + 1 + i) % n

\* Mutant of RoundRobin: every task goes to queue 0.
RoundRobin_zero(k) == 0

\* The round-robin destination.
RoundRobin(k) == k % n

\* Where a thread goes when the push_task it called returns.
AfterPush(th) == IF th = MainT THEN "idle" ELSE "body"

\* A worker that is in no partitioning call of quicksort_job.
\* lo and hi are history: the lowest and highest index the call has accessed.
NoFrame == [left |-> 0, right |-> -1, l |-> 0, r |-> -1, pivot |-> 0, lo |-> 0, hi |-> -1]

\* No array is being sorted: the task bodies of the pool are left abstract.
NoSort ==
  /\ array = <<>>
  /\ input = <<>>
  /\ threshold = 0
  /\ jobs = <<>>
  /\ sk = [w \in Workers |-> <<>>]
  /\ fr = [w \in Workers |-> NoFrame]
  /\ spawns = 0

\* The mutexes: m_queue_mutexes[q] is q, and the tree's except_mtx.
ExceptMtx == MaxWorkers
Mutexes == 0..MaxWorkers
NoHolder == -1

\* No mutex is held.
Unlocked == holder = [m \in Mutexes |-> NoHolder]

----------------------------------------------------------------------------
\* The pool after its constructor, and a client that has not started a tree.
PoolInit ==
  /\ n \in 1..MaxWorkers
  /\ m_queues = [w \in Workers |-> <<>>]
  /\ m_index = 0
  /\ m_done = FALSE
  /\ pc = [th \in Threads |-> IF th = MainT THEN "idle"
                              ELSE IF th < n THEN "loop" ELSE "absent"]
  /\ cur = [w \in Workers |-> 0]
  /\ src = [w \in Workers |-> 0]
  /\ idx = [th \in Threads |-> 0]
  /\ stealI = [w \in Workers |-> 0]
  /\ arg = [th \in Threads |-> 0]
  /\ dk = 0
  /\ kind = [t \in Tasks |-> "none"]
  /\ counter = 0
  /\ except_set = FALSE
  /\ except_ptr = 0
  /\ prom = "unset"
  /\ prom_exc = 0
  /\ got = -1
  /\ runs = [t \in Tasks |-> 0]
  /\ raised = {}
  /\ catchLog = <<>>
  /\ setCalls = 0
  /\ finalBy = 0
  /\ stamp = [t \in Tasks |-> 0]
  /\ atDone = {}
  /\ lateTakes = [w \in Workers |-> 0]

Init == PoolInit /\ NoSort /\ Unlocked

----------------------------------------------------------------------------
\* push_task, line 44: idx = m_index.fetch_add(1) % m_queues.size().
PushIndex(th) ==
  /\ pc[th] = "p_index"
  /\ idx' = [idx EXCEPT ![th] = RoundRobin(m_index)]
  /\ m_index' = m_index + 1
  /\ pc' = [pc EXCEPT ![th] = "p_push"]
  /\ UNCHANGED <<n, m_queues, m_done, cur, src, stealI, arg, dk, kind, treeVars, got,
                 histVars, takeVars>>
  /\ UNCHANGED <<sortVars, holder>>

\* push_task, lines 45-48: push_front under the queue's mutex.
PushFront(th) ==
  /\ pc[th] = "p_push"
  /\ MutexFree(idx[th])
  /\ m_queues' = [m_queues EXCEPT ![idx[th]] = push_front(@, arg[th])]
  /\ stamp' = [stamp EXCEPT ![arg[th]] = Pushed + 1]
  /\ UNCHANGED <<atDone, lateTakes>>
  /\ pc' = [pc EXCEPT ![th] = "p_notify"]
  /\ UNCHANGED <<n, m_index, m_done, localVars, kind, treeVars, got, histVars>>
  /\ UNCHANGED <<sortVars, holder>>

\* push_task, line 49: notify_one on the queue's condition variable. Only worker
\* idx waits on it; the notification is lost unless that worker is blocked.
PushNotify(th) ==
  /\ pc[th] = "p_notify"
  /\ pc' = [pc EXCEPT ![th] = AfterPush(th),
                      ![idx[th]] = IF idx[th] # th /\ @ = "blocked" THEN "woken" ELSE @]
  /\ arg' = [arg EXCEPT ![th] = 0]
  /\ idx' = [idx EXCEPT ![th] = 0]
  /\ UNCHANGED <<poolVars, cur, src, stealI, dk, kind, treeVars, got, histVars, takeVars>>
  /\ UNCHANGED <<sortVars, holder>>

----------------------------------------------------------------------------
\* What a take of task t by worker w leaves in the history variables.
NoteTake(w, t) ==
  /\ stamp' = [stamp EXCEPT ![t] = 0]
  /\ lateTakes' = [lateTakes EXCEPT ![w] = IF m_done THEN @ + 1 ELSE @]
  /\ UNCHANGED atDone

\* Mutant of LoopTest: the loop ends whatever the flag says.
LoopTest_leave(w) ==
  /\ pc[w] = "loop"
  /\ pc' = [pc EXCEPT ![w] = "exit"]
  /\ UNCHANGED <<poolVars, localVars, kind, treeVars, got, histVars, takeVars, sortVars, holder>>

\* worker_loop, line 55: while (!m_done.load()).
LoopTest(w) ==
  /\ pc[w] = "loop"
  /\ pc' = [pc EXCEPT ![w] = IF m_done THEN "exit" ELSE "pop"]
  /\ UNCHANGED <<poolVars, localVars, kind, treeVars, got, histVars, takeVars>>
  /\ UNCHANGED <<sortVars, holder>>

\* try_pop_from_queue, lines 83-89, called at line 58 on the worker's own queue.
TryPop(w) ==
  /\ pc[w] = "pop"
  /\ IF m_queues[w] = <<>>
     THEN /\ pc' = [pc EXCEPT ![w] = "steal"]
          /\ stealI' = [stealI EXCEPT ![w] = 0]
          /\ UNCHANGED <<m_queues, cur, src, takeVars>>
     ELSE /\ cur' = [cur EXCEPT ![w] = front(m_queues[w])]
          /\ m_queues' = [m_queues EXCEPT ![w] = pop_front(@)]
          /\ src' = [src EXCEPT ![w] = w]
          /\ NoteTake(w, front(m_queues[w]))
          /\ pc' = [pc EXCEPT ![w] = "call"]
          /\ UNCHANGED stealI
  /\ UNCHANGED <<n, m_index, m_done, idx, arg, dk, kind, treeVars, got, histVars>>
  /\ UNCHANGED <<sortVars, holder>>

\* The steal loop's bound, line 64: i < m_queues.size().
StealBound == n

\* One iteration of the steal loop, lines 64-71: try_steal_from_queue (lines
\* 92-98) on queue (my_index + 1 + i) % size; after the last failure the worker
\* goes to the idle wait.
TrySteal(w) ==
  /\ pc[w] = "steal"
  /\ LET v == StealIdx(w, stealI[w]) IN
     /\ MutexFree(v) \/ v = w
     /\ IF m_queues[v] = <<>>
        THEN /\ IF stealI[w] + 1 < StealBound
                THEN /\ stealI' = [stealI EXCEPT ![w] = @ + 1]
                     /\ pc' = pc
                ELSE /\ stealI' = [stealI EXCEPT ![w] = 0]
                     /\ pc' = [pc EXCEPT ![w] = "wait"]
             /\ UNCHANGED <<m_queues, cur, src, takeVars>>
        ELSE /\ cur' = [cur EXCEPT ![w] = back(m_queues[v])]
             /\ m_queues' = [m_queues EXCEPT ![v] = pop_back(@)]
             /\ src' = [src EXCEPT ![w] = v]
             /\ NoteTake(w, back(m_queues[v]))
             /\ pc' = [pc EXCEPT ![w] = "call"]
             /\ stealI' = [stealI EXCEPT ![w] = 0]
  /\ UNCHANGED <<n, m_index, m_done, idx, arg, dk, kind, treeVars, got, histVars>>
  /\ UNCHANGED <<sortVars, holder>>

\* Lines 75-78: the lock and the first test of the wait_for predicate. When it
\* holds wait_for returns at once; otherwise the worker, still holding its
\* queue's mutex, is about to block.
WaitTest(w) ==
  /\ pc[w] = "wait"
  /\ pc' = [pc EXCEPT ![w] = IF WaitPred(w) THEN "loop" ELSE "wait_block"]
  /\ UNCHANGED <<poolVars, localVars, kind, treeVars, got, histVars, takeVars>>
  /\ UNCHANGED <<sortVars, holder>>

\* The condition variable's wait: release the mutex and block, atomically.
WaitBlock(w) ==
  /\ pc[w] = "wait_block"
  /\ pc' = [pc EXCEPT ![w] = "blocked"]
  /\ UNCHANGED <<poolVars, localVars, kind, treeVars, got, histVars, takeVars>>
  /\ UNCHANGED <<sortVars, holder>>

\* A notified worker takes the mutex again and tests the predicate: wait_for
\* returns when it holds and blocks again when it does not.
WaitWoken(w) ==
  /\ pc[w] = "woken"
  /\ pc' = [pc EXCEPT ![w] = IF WaitPred(w) THEN "loop" ELSE "blocked"]
  /\ UNCHANGED <<poolVars, localVars, kind, treeVars, got, histVars, takeVars>>
  /\ UNCHANGED <<sortVars, holder>>

\* Mutant of TimeoutEnabled: wait() in place of wait_for(): no timeout.
Timeout_never == FALSE

\* Whether the 50 ms of wait_for (line 76) can run out.
TimeoutEnabled == TRUE

\* The timeout of wait_for: it returns whatever the predicate says, and the
\* worker goes back to the loop test. A worker already notified may time out
\* as well.
WaitTimeout(w) ==
  /\ pc[w] \in {"blocked", "woken"}
  /\ TimeoutEnabled
  /\ pc' = [pc EXCEPT ![w] = "loop"]
  /\ UNCHANGED <<poolVars, localVars, kind, treeVars, got, histVars, takeVars>>
  /\ UNCHANGED <<sortVars, holder>>

----------------------------------------------------------------------------
\* The task a thread creates next.
NewTask == Created + 1

\* Mutant of AfterTask: the flag is not tested again after a task.
AfterTask_pop == "pop"

\* Lines 60 and 72: continue, back to the loop test of line 55.
AfterTask == "loop"

\* Lines 59 and 67: task(). A wrapped task enters the wrapper lambda of
\* spawn_task_in_pool (main.cpp line 41), which calls job().
Call(w) ==
  /\ pc[w] = "call"
  /\ runs' = [runs EXCEPT ![cur[w]] = @ + 1]
  /\ pc' = [pc EXCEPT ![w] = "body"]
  /\ UNCHANGED <<poolVars, localVars, kind, treeVars, got,
                 raised, catchLog, setCalls, finalBy, takeVars>>
  /\ UNCHANGED <<sortVars, holder>>

\* The job calls spawn_task_in_pool (as quicksort_job does at lines 92, 97, 102).
BodySpawn(w) ==
  /\ pc[w] = "body"
  /\ kind[cur[w]] = "wrapped"
  /\ Created < MaxTasks
  /\ kind' = [kind EXCEPT ![NewTask] = "wrapped"]
  /\ arg' = [arg EXCEPT ![w] = NewTask]
  /\ pc' = [pc EXCEPT ![w] = "sp_count"]
  /\ UNCHANGED <<poolVars, cur, src, idx, stealI, dk, treeVars, got, histVars, takeVars>>
  /\ UNCHANGED <<sortVars, holder>>

\* Mutant of SpawnCount: the task is submitted without being counted.
SpawnCount_skip(th) ==
  /\ pc[th] = "sp_count"
  /\ pc' = [pc EXCEPT ![th] = "p_index"]
  /\ UNCHANGED <<poolVars, localVars, kind, treeVars, got, histVars, takeVars, sortVars, holder>>

\* spawn_task_in_pool, line 40: counter->fetch_add(1); push_task follows.
SpawnCount(th) ==
  /\ pc[th] = "sp_count"
  /\ counter' = counter + 1
  /\ pc' = [pc EXCEPT ![th] = "p_index"]
  /\ UNCHANGED <<poolVars, localVars, kind, except_set, except_ptr, prom, prom_exc,
                 got, histVars, takeVars>>
  /\ UNCHANGED <<sortVars, holder>>

\* The body returns: a bare task is over (ThreadPool.h line 60 or 72), a wrapped
\* one goes on to the decrement (main.cpp line 43, then 53).
BodyReturn(w) ==
  /\ pc[w] = "body"
  /\ IF kind[cur[w]] = "plain"
     THEN /\ pc' = [pc EXCEPT ![w] = AfterTask]
          /\ cur' = [cur EXCEPT ![w] = 0]
          /\ src' = [src EXCEPT ![w] = 0]
     ELSE /\ pc' = [pc EXCEPT ![w] = "dec"]
          /\ UNCHANGED <<cur, src>>
  /\ UNCHANGED <<poolVars, idx, stealI, arg, dk, kind, treeVars, got, histVars, takeVars>>
  /\ UNCHANGED <<sortVars, holder>>

\* Mutant of BodyThrow: no try block around job(); the exception leaves the
\* wrapper and the worker thread.
BodyThrow_escape(w) ==
  /\ pc[w] = "body"
  /\ kind[cur[w]] = "wrapped"
  /\ raised' = raised \cup {cur[w]}
  /\ pc' = [pc EXCEPT ![w] = "terminate"]
  /\ UNCHANGED <<poolVars, localVars, kind, treeVars, got, runs, catchLog, setCalls, finalBy, takeVars>>
  /\ UNCHANGED <<sortVars, holder>>

\* Line 43: job() throws; the handler of line 44 is entered.
BodyThrow(w) ==
  /\ pc[w] = "body"
  /\ kind[cur[w]] = "wrapped"
  /\ raised' = raised \cup {cur[w]}
  /\ pc' = [pc EXCEPT ![w] = "catch"]
  /\ UNCHANGED <<poolVars, localVars, kind, treeVars, got, runs, catchLog, setCalls, finalBy, takeVars>>
  /\ UNCHANGED <<sortVars, holder>>

\* Mutant of SlotEmpty: the handler stores its exception unconditionally.
SlotEmpty_always == TRUE

\* Line 47: whether the handler stores its exception.
SlotEmpty == ~except_set

\* Lines 46-50: under except_mtx, record the exception if none is recorded.
Catch(w) ==
  /\ pc[w] = "catch"
  /\ catchLog' = Append(catchLog, cur[w])
  /\ IF SlotEmpty
     THEN /\ except_ptr' = cur[w]
          /\ except_set' = TRUE
     ELSE UNCHANGED <<except_ptr, except_set>>
  /\ pc' = [pc EXCEPT ![w] = "dec"]
  /\ UNCHANGED <<poolVars, localVars, kind, counter, prom, prom_exc, got,
                 runs, raised, setCalls, finalBy, takeVars>>
  /\ UNCHANGED <<sortVars, holder>>

\* Mutant of IsLast: the wrapper compares the value after the decrement.
IsLast_after(prev) == prev = 0

\* Mutant of IsLast: every wrapper finalizes after its decrement.
IsLast_any(prev) == prev >= 1

\* Line 54: whether the wrapper that read prev from fetch_sub finalizes.
IsLast(prev) == prev = 1

\* Lines 53-54: prev = counter->fetch_sub(1); the wrapper returns unless prev == 1.
Dec(w) ==
  /\ pc[w] = "dec"
  /\ counter' = counter - 1
  /\ IF IsLast(counter)
     THEN /\ pc' = [pc EXCEPT ![w] = "final"]
          /\ UNCHANGED <<cur, src>>
     ELSE /\ pc' = [pc EXCEPT ![w] = AfterTask]
          /\ cur' = [cur EXCEPT ![w] = 0]
          /\ src' = [src EXCEPT ![w] = 0]
  /\ UNCHANGED <<poolVars, idx, stealI, arg, dk, kind, except_set, except_ptr,
                 prom, prom_exc, got, histVars, takeVars>>
  /\ UNCHANGED <<sortVars, holder>>

\* Mutant of Outcome: the finalizer ignores the error slot.
Outcome_value == "value"

\* Lines 56-60: what the finalizing wrapper puts in the promise.
Outcome == IF except_set THEN "exception" ELSE "value"

\* Lines 55-60: under except_mtx, set_exception or set_value. A promise that is
\* already satisfied throws std::future_error, which leaves the wrapper and the
\* worker thread: std::terminate.
Final(w) ==
  /\ pc[w] = "final"
  /\ setCalls' = setCalls + 1
  /\ IF prom = "unset"
     THEN /\ prom' = Outcome
          /\ prom_exc' = IF Outcome = "exception" THEN except_ptr ELSE 0
          /\ finalBy' = cur[w]
          /\ pc' = [pc EXCEPT ![w] = AfterTask]
     ELSE /\ pc' = [pc EXCEPT ![w] = "terminate"]
          /\ UNCHANGED <<prom, prom_exc, finalBy>>
  /\ cur' = [cur EXCEPT ![w] = 0]
  /\ src' = [src EXCEPT ![w] = 0]
  /\ UNCHANGED <<poolVars, idx, stealI, arg, dk, kind, counter, except_set, except_ptr,
                 got, runs, raised, catchLog, takeVars>>
  /\ UNCHANGED <<sortVars, holder>>

----------------------------------------------------------------------------
\* The client calls push_task with a bare task.
MainPush ==
  /\ pc[MainT] = "idle"
  /\ Created < MaxTasks
  /\ kind' = [kind EXCEPT ![NewTask] = "plain"]
  /\ arg' = [arg EXCEPT ![MainT] = NewTask]
  /\ pc' = [pc EXCEPT ![MainT] = "p_index"]
  /\ UNCHANGED <<poolVars, cur, src, idx, stealI, dk, treeVars, got, histVars, takeVars>>
  /\ UNCHANGED <<sortVars, holder>>

\* Whether quicksort_async was called.
TreeStarted == \E t \in Tasks : kind[t] = "wrapped"

\* quicksort_async, lines 115-119: a fresh QuicksortState and the root spawn.
MainAsync ==
  /\ pc[MainT] = "idle"
  /\ ~TreeStarted
  /\ Created < MaxTasks
  /\ kind' = [kind EXCEPT ![NewTask] = "wrapped"]
  /\ arg' = [arg EXCEPT ![MainT] = NewTask]
  /\ pc' = [pc EXCEPT ![MainT] = "sp_count"]
  /\ UNCHANGED <<poolVars, cur, src, idx, stealI, dk, treeVars, got, histVars, takeVars>>
  /\ UNCHANGED <<sortVars, holder>>

\* main, lines 144-148: fut.wait() returns once the promise is satisfied, and
\* fut.get() returns or rethrows what the promise holds.
FutGet ==
  /\ pc[MainT] = "idle"
  /\ prom # "unset"
  /\ got = -1
  /\ got' = IF prom = "value" THEN 0 ELSE prom_exc
  /\ UNCHANGED <<poolVars, pc, localVars, kind, treeVars, histVars, takeVars>>
  /\ UNCHANGED <<sortVars, holder>>

\* ~ThreadPool, line 37: m_done.store(true).
DStore ==
  /\ pc[MainT] = "idle"
  /\ m_done' = TRUE
  /\ atDone' = {t \in Tasks : \E q \in Workers : InQueue(q, t)}
  /\ UNCHANGED <<stamp, lateTakes>>
  /\ pc' = [pc EXCEPT ![MainT] = "d_notify"]
  /\ dk' = 0
  /\ UNCHANGED <<n, m_queues, m_index, cur, src, idx, stealI, arg, kind, treeVars, got,
                 histVars>>
  /\ UNCHANGED <<sortVars, holder>>

\* ~ThreadPool, line 38: notify_all on each condition variable in turn.
DNotify ==
  /\ pc[MainT] = "d_notify"
  /\ pc' = [pc EXCEPT ![dk] = IF @ = "blocked" THEN "woken" ELSE @,
                      ![MainT] = IF dk + 1 < n THEN "d_notify" ELSE "d_join"]
  /\ dk' = IF dk + 1 < n THEN dk + 1 ELSE 0
  /\ UNCHANGED <<poolVars, cur, src, idx, stealI, arg, kind, treeVars, got, histVars, takeVars>>
  /\ UNCHANGED <<sortVars, holder>>

\* ~ThreadPool, line 39: join each worker in turn.
DJoin ==
  /\ pc[MainT] = "d_join"
  /\ pc[dk] = "exit"
  /\ pc' = [pc EXCEPT ![MainT] = IF dk + 1 < n THEN "d_join" ELSE "destroyed"]
  /\ dk' = IF dk + 1 < n THEN dk + 1 ELSE 0
  /\ UNCHANGED <<poolVars, cur, src, idx, stealI, arg, kind, treeVars, got, histVars, takeVars>>
  /\ UNCHANGED <<sortVars, holder>>

----------------------------------------------------------------------------
WorkerStep(w) ==
  \/ LoopTest(w)
  \/ TryPop(w)
  \/ TrySteal(w)
  \/ WaitTest(w)
  \/ WaitBlock(w)
  \/ WaitWoken(w)
  \/ WaitTimeout(w)
  \/ Call(w)
  \/ BodySpawn(w)
  \/ BodyReturn(w)
  \/ BodyThrow(w)
  \/ Catch(w)
  \/ Dec(w)
  \/ Final(w)

PushStep(th) ==
  \/ SpawnCount(th)
  \/ PushIndex(th)
  \/ PushFront(th)
  \/ PushNotify(th)

MainStep ==
  \/ MainPush
  \/ MainAsync
  \/ FutGet
  \/ DStore
  \/ DNotify
  \/ DJoin

Next ==
  \/ \E w \in Workers : WorkerStep(w)
  \/ \E th \in Threads : PushStep(th)
  \/ MainStep

Spec == Init /\ [][Next]_vars

----------------------------------------------------------------------------
\* The steps of the scheduling loop itself.
PoolStep(w) ==
  \/ LoopTest(w)
  \/ TryPop(w)
  \/ TrySteal(w)
  \/ WaitTest(w)
  \/ WaitBlock(w)
  \/ WaitWoken(w)
  \/ WaitTimeout(w)
  \/ Call(w)

\* A thread that asks for a queue mutex gets it: the only holder across steps
\* is the owner about to block on the condition variable, which releases it in
\* its next step and then sleeps. Strong fairness says so for the steps that
\* lock another worker's queue.
FairLocks ==
  /\ \A th \in Threads : SF_vars(PushFront(th))
  /\ \A w \in Workers : SF_vars(TrySteal(w))

\* Every thread that can take a step eventually takes one, so every task body
\* ends; the client finishes the call it is in but need not start another.
FairAll ==
  /\ \A w \in Workers : WF_vars(WorkerStep(w) \/ PushStep(w))
  /\ WF_vars(PushStep(MainT) \/ DNotify \/ DJoin)
  /\ FairLocks

\* The scheduling loops are fair, but a task body may run for ever.
FairPool ==
  /\ \A w \in Workers : WF_vars(PoolStep(w))
  /\ \A w \in Workers : SF_vars(TrySteal(w))

\* The pool in service: the client submits work and never destroys the pool, so
\* the shutdown flag is never set.
ClientStep ==
  \/ MainPush
  \/ MainAsync
  \/ FutGet

NextRun ==
  \/ \E w \in Workers : WorkerStep(w)
  \/ \E th \in Threads : PushStep(th)
  \/ ClientStep

SpecRun == Init /\ [][NextRun]_vars /\ FairAll
SpecRunPool == Init /\ [][NextRun]_vars /\ FairPool

\* The client of main.cpp, except that it need not wait for the tree: it calls
\* quicksort_async and lets the pool go out of scope, at any moment.
NextShutdown ==
  \/ \E w \in Workers : WorkerStep(w)
  \/ \E th \in Threads : PushStep(th)
  \/ MainAsync
  \/ DStore
  \/ DNotify
  \/ DJoin

SpecShutdown == Init /\ [][NextShutdown]_vars /\ FairAll

----------------------------------------------------------------------------
\* Where task t is: the queue slots and the workers that hold it.
Slots(t) == {<<q, i>> \in Workers \X (1..MaxTasks) : i <= Len(m_queues[q]) /\ m_queues[q][i] = t}
Holders(t) == {w \in Workers : cur[w] = t}
Submitting(t) == \E th \in Threads : arg[th] = t /\ pc[th] \in {"sp_count", "p_index", "p_push"}
Submitted(t) == kind[t] # "none"

\* A submitted task is in exactly one place: on its way to a queue, in one slot
\* of one queue, with one worker that runs it once, or over after one run.
OnePlace(t) ==
  \/ Submitting(t) /\ Slots(t) = {} /\ Holders(t) = {} /\ runs[t] = 0
  \/ ~Submitting(t) /\ Cardinality(Slots(t)) = 1 /\ Holders(t) = {} /\ runs[t] = 0
  \/ ~Submitting(t) /\ Slots(t) = {} /\ Cardinality(Holders(t)) = 1 /\ runs[t] \in {0, 1}
  \/ ~Submitting(t) /\ Slots(t) = {} /\ Holders(t) = {} /\ runs[t] = 1

C1_Safe == \A t \in Tasks : Submitted(t) => OnePlace(t)

\* C1: every task submitted through push_task is run exactly once: it is never
\* in two places, never run twice, never gone without a run, and, unless the
\* shutdown flag is set, it is eventually run.
C1_ExactlyOnce ==
  /\ []C1_Safe
  /\ \A t \in Tasks : Submitted(t) ~> (runs[t] = 1)

\* Witness of C1: without shutdown, three tasks have run, one of them stolen.
C1_Witness ==
  /\ ~m_done
  /\ \A t \in Tasks : runs[t] = 1
  /\ \E w \in Workers : pc[w] = "body" /\ src[w] # w

----------------------------------------------------------------------------
\* The tasks of the fork-join tree, and its root.
TreeTasks == {t \in Tasks : kind[t] = "wrapped"}
IsRoot(t) == t \in TreeTasks /\ \A u \in TreeTasks : t <= u

\* Task t is queued, on its way to a queue, or its wrapper has not yet decremented.
Pending(t) ==
  \/ Submitting(t)
  \/ Slots(t) # {}
  \/ \E w \in Workers : cur[w] = t /\ pc[w] # "final"

\* The promise is satisfied at most once, and only with the tree at rest.
C2_AtRest ==
  /\ setCalls <= 1
  /\ (prom = "unset") = (setCalls = 0)
  /\ prom # "unset" => counter = 0 /\ \A t \in TreeTasks : ~Pending(t) /\ runs[t] = 1

\* The wrapper whose decrement takes the count from 1 to 0, and no other,
\* goes on to finalize.
C2_Terminal ==
  \A w \in Workers :
    (pc[w] # "final" /\ pc'[w] = "final") = (pc[w] = "dec" /\ pc'[w] # "dec" /\ counter = 1 /\ counter' = 0)

\* The promise changes only in a step of a finalizing wrapper, with the count 0
\* and nothing of the tree queued or running.
C2_Fires ==
  prom' # prom =>
    /\ prom = "unset"
    /\ counter = 0
    /\ \E w \in Workers : pc[w] = "final" /\ pc'[w] = "loop"
    /\ \A t \in TreeTasks : ~Pending(t)

\* C2: the completion signal of a tree fires at most once, by the wrapper whose
\* decrement saw the count go from 1 to 0, and when it fires no task of the
\* tree is queued or running its body.
C2_SignalOnce == []C2_AtRest /\ [][C2_Terminal /\ C2_Fires]_vars

\* Witness of C2: a tree of three tasks has completed, and the terminal
\* decrement was made by a task other than the root.
C2_Witness ==
  /\ prom # "unset"
  /\ Cardinality(TreeTasks) = 3
  /\ ~IsRoot(finalBy)

----------------------------------------------------------------------------
\* C3: the outcome the waiter gets is success exactly when no body of the tree
\* raised; otherwise it is the error of the wrapper that took the error-slot
\* lock first.
C3_Outcome ==
  /\ prom # "unset" =>
       /\ (prom = "value") = (raised = {})
       /\ raised = {catchLog[i] : i \in 1..Len(catchLog)}
       /\ prom = "exception" => prom_exc = catchLog[1]
  /\ got # -1 =>
       /\ prom # "unset"
       /\ got = IF raised = {} THEN 0 ELSE catchLog[1]

\* Witness of C3: two bodies raised, the waiter got the first recorded error,
\* and a task that did not raise finalized.
C3_Witness ==
  /\ Len(catchLog) = 2
  /\ got = catchLog[1]
  /\ finalBy \notin raised

----------------------------------------------------------------------------
\* Worker w is in its scheduling loop, with no task in hand.
Seeking(w) == pc[w] \in {"loop", "pop", "steal", "wait", "wait_block", "blocked", "woken"}

\* Worker w runs a task it took from another worker's queue.
RunsStolen(w) == pc[w] = "body" /\ src[w] # w

\* C4: a worker with nothing in its own queue does not idle for ever while a
\* peer's queue holds a task: unless its own queue gets a task or the peer's
\* queue is emptied by others, it steals a task and runs it. Task bodies may
\* run for ever (the peer's owner is busy), and the flag is never set.
C4_StealsEventually ==
  \A w \in Workers : \A v \in Workers \ {w} :
    (Seeking(w) /\ m_queues[w] = <<>> /\ m_queues[v] # <<>>)
      ~> (RunsStolen(w) \/ m_queues[w] # <<>> \/ m_queues[v] = <<>>)

\* Witness of C4: worker w runs a task stolen from a peer whose owner is
\* still inside a task body.
C4_Witness ==
  \E w \in Workers :
    /\ RunsStolen(w)
    /\ pc[src[w]] = "body"
    /\ ~m_done

----------------------------------------------------------------------------
\* The tasks in queue q.
QueueTasks(q) == {m_queues[q][i] : i \in 1..Len(m_queues[q])}

\* Task t is the most recently, or the least recently, pushed of queue q.
Newest(q, t) == \A u \in QueueTasks(q) : stamp[u] <= stamp[t]
Oldest(q, t) == \A u \in QueueTasks(q) : stamp[u] >= stamp[t]

\* In this step worker w takes a task from a queue.
Takes(w) == cur[w] = 0 /\ cur'[w] # 0

\* C5: a task the owner removes from its own queue is the most recently pushed
\* one of that queue, and a task another worker removes is the oldest one.
C5_OwnerNewestThiefOldest ==
  [][\A w \in Workers :
       Takes(w) => IF src'[w] = w THEN Newest(w, cur'[w]) ELSE Oldest(src'[w], cur'[w])]_vars

----------------------------------------------------------------------------
\* C6: one worker, bare tasks 1, 2, 3 (A, B, C) pushed in that order by the
\* client. Task 3 is pushed last, so "no task is removed before all three are
\* pushed" means that the first removal finds <<3, 2, 1>>; the order C, B, A
\* then says that this removal takes 3 and that the one after it takes 2.
C6_OrderCBA ==
  [][(n = 1 /\ (\A t \in 1..3 : kind[t] = "plain") /\ Takes(0)) =>
       /\ m_queues[0] = <<3, 2, 1>> => cur'[0] = 3
       /\ (m_queues[0] = <<2, 1>> /\ runs[3] = 1) => cur'[0] = 2]_vars

----------------------------------------------------------------------------
\* The tasks that were queued when the flag was set and are no longer queued.
TakenLate == {t \in atDone : Slots(t) = {}}

\* C7 as claimed: no task that was in a queue when the shutdown flag was set
\* is started afterwards.
C7_NoneStarted == \A t \in atDone : runs[t] = 0

\* C7 as amended: after the flag is set each worker takes at most one more
\* task, only those tasks leave the queues, a worker that has left its loop
\* holds none, and when the destructor returns every submitted task has run
\* to completion or is still queued.
C7_AtMostOneEach ==
  /\ \A w \in Workers : lateTakes[w] <= 1
  /\ Cardinality(TakenLate) <= Cardinality({w \in Workers : lateTakes[w] = 1})
  /\ \A w \in Workers : pc[w] = "exit" => cur[w] = 0
  /\ pc[MainT] = "destroyed" =>
       \A t \in Tasks : Submitted(t) =>
         \/ runs[t] = 1 /\ Holders(t) = {} /\ Slots(t) = {}
         \/ runs[t] = 0 /\ Holders(t) = {} /\ Cardinality(Slots(t)) = 1

\* Witness of C7: the destructor has returned; one task that was queued at
\* shutdown was run after it, another is still queued.
C7_Witness ==
  /\ pc[MainT] = "destroyed"
  /\ \E t \in atDone : runs[t] = 1
  /\ \E t \in atDone : Slots(t) # {}

----------------------------------------------------------------------------
\* C8: once the destructor has set the flag, it returns: every worker leaves
\* its loop and is joined.
C8_DestructorReturns == m_done ~> (pc[MainT] = "destroyed")

\* Witness of C8: the destructor has returned, every worker has left its loop,
\* and a task pushed after the flag was set is still queued.
C8_Witness ==
  /\ pc[MainT] = "destroyed"
  /\ \E t \in Tasks : Slots(t) # {} /\ t \notin atDone
  /\ \A w \in Workers : pc[w] \in {"exit", "absent"}

----------------------------------------------------------------------------
\* No worker thread was ended by an exception, and a wrapper whose body
\* raised is in its handler, at its decrement or finalizing.
C9_Caught ==
  \A w \in Workers :
    /\ pc[w] # "terminate"
    /\ cur[w] \in raised => pc[w] \in {"catch", "dec", "final"}

\* The wrapper of a failing task goes from the handler to the decrement,
\* decrements, and gives the worker back to the head of its loop.
C9_Continues ==
  \A w \in Workers :
    (cur[w] \in raised /\ pc'[w] # pc[w]) =>
      /\ pc[w] = "catch" => pc'[w] = "dec" /\ counter' = counter
      /\ pc[w] = "dec" => pc'[w] \in {"final", "loop"} /\ counter' = counter - 1
      /\ pc[w] = "final" => pc'[w] = "loop"
      /\ pc'[w] = "loop" => cur'[w] = 0

\* C9: an error raised by a wrapped task's body does not leave the wrapper:
\* the wrapper still decrements the count and the worker returns to its loop.
C9_ErrorContained == []C9_Caught /\ [][C9_Continues]_vars

\* Witness of C9: the only worker runs a task after one of its tasks raised.
C9_Witness ==
  /\ n = 1
  /\ raised # {}
  /\ pc[0] = "body"
  /\ cur[0] \notin raised

----------------------------------------------------------------------------
\* C10: the error slot is written once: after except_set is true neither it
\* nor except_ptr changes.
C10_WriteOnce == [][except_set => (except_set' /\ except_ptr' = except_ptr)]_vars

\* Witness of C10: a second failing wrapper went through the handler and the
\* slot still holds the first error.
C10_Witness ==
  /\ Len(catchLog) = 2
  /\ except_set
  /\ except_ptr = catchLog[1]
  /\ except_ptr # catchLog[2]

----------------------------------------------------------------------------
(***************************************************************************)
(* quicksort_job and quicksort_async (src/main.cpp) on an array.  The pool *)
(* is abstracted to what the claims above establish of it: a spawned task  *)
(* is taken, once, by some worker at some moment, in any order.  A step of *)
(* quicksort_job is its entry, one iteration of the partition loop, or the *)
(* branch that spawns and recurses.  A worker's pending inline calls are   *)
(* kept in sk, the call that returns first at the head.                    *)
(***************************************************************************)
\* Bounds of the inputs.
MaxLen == 6
MaxVal == 3

\* Line 67 has tiny = 1000: every array of a size the model can enumerate
\* would go to std::sort at line 70. The cutoff is scaled down so that the
\* partition and the spawn policy are exercised.
tiny == 1

\* The scenario's input.
Scenario == <<5, 3, 8, 1, 9, 2>>

Inputs == UNION {[1..k -> 1..MaxVal] : k \in 0..MaxLen} \cup {Scenario}
Thresholds == -1..MaxLen

\* The least and the greatest of a set of indices.
Min(S) == CHOOSE x \in S : \A y \in S : x <= y
Max(S) == CHOOSE x \in S : \A y \in S : x >= y

\* array[i] and std::swap(array[i], array[j]), with the indices of the code.
Idx(a) == 0..(Len(a) - 1)
At(a, i) == a[i + 1]
\* Mutant of Swap: the two elements stay where they are.
Swap_none(a, i, j) == a
Swap(a, i, j) == [a EXCEPT ![i + 1] = a[j + 1], ![j + 1] = a[i + 1]]

\* std::sort on a sequence: ascending order of the same elements.
Ascending(s) == SortSeq(s, LAMBDA x, y : x < y)

\* std::sort(array + left, array + right + 1).
StdSort(a, left, right) ==
  SubSeq(a, 1, left) \o Ascending(SubSeq(a, left + 1, right + 1)) \o SubSeq(a, right + 2, Len(a))

\* Line 78: while (array[l] < pivot) ++l. A read outside the array ends the scan
\* with the index outside.
RECURSIVE ScanUp(_, _, _)
ScanUp(a, l, pivot) ==
  IF l \in Idx(a) /\ At(a, l) < pivot THEN ScanUp(a, l + 1, pivot) ELSE l

\* Line 79: while (array[r] > pivot) --r.
RECURSIVE ScanDown(_, _, _)
ScanDown(a, r, pivot) ==
  IF r \in Idx(a) /\ At(a, r) > pivot THEN ScanDown(a, r - 1, pivot) ELSE r

\* Lines 80 and 84: the test of the swap and of the loop.
NotCrossed(l, r) == l <= r

\* Lines 68 and 69: the calls that return without partitioning.
IsEmptyRange(left, right) == left >= right
IsTiny(left, right) == right - left <= tiny

\* Mutant of left_big: the number of elements is compared with the threshold.
left_big_elements(f) == (f.r - f.left + 1) > threshold

\* Lines 87 and 88.
left_big(f) == (f.r - f.left) > threshold
right_big(f) == (f.right - f.l) > threshold

\* Mutant of RightRange: the right sub-range starts at r.
RightRange_from_r(f) == [left |-> f.r, right |-> f.right]

\* The sub-ranges [left, r] and [l, right] of lines 93-109.
LeftRange(f) == [left |-> f.left, right |-> f.r]
RightRange(f) == [left |-> f.l, right |-> f.right]

InitSort ==
  /\ PoolInit
  /\ input \in Inputs
  /\ array = input
  /\ threshold \in Thresholds
  /\ jobs = <<>>
  /\ sk = [w \in Workers |-> <<>>]
  /\ fr = [w \in Workers |-> NoFrame]
  /\ spawns = 0
  /\ Unlocked

\* What the pool's variables do in a step of the sort: only pc, the count and
\* the promise are used.
sortIdle == <<poolVars, localVars, kind, except_set, except_ptr, prom_exc,
              histVars, takeVars, holder>>

\* main, line 143, and quicksort_async, lines 115-119: the root task, on the
\* whole array, is spawned (counter->fetch_add(1), then push_task).
SortAsync ==
  /\ pc[MainT] = "idle"
  /\ prom = "unset"
  /\ got = -1
  /\ counter' = counter + 1
  /\ jobs' = Append(jobs, [left |-> 0, right |-> Len(array) - 1])
  /\ pc' = [pc EXCEPT ![MainT] = "fut_wait"]
  /\ UNCHANGED <<sortIdle, prom, got, array, input, threshold, sk, fr, spawns>>

\* main, line 144: fut.wait() returns once the promise is satisfied.
FutWait ==
  /\ pc[MainT] = "fut_wait"
  /\ prom # "unset"
  /\ pc' = [pc EXCEPT ![MainT] = "idle"]
  /\ UNCHANGED <<sortIdle, counter, prom, got, sortVars>>

\* A worker takes a spawned task (ThreadPool.h lines 58-59 or 66-67); its
\* wrapper calls the job, which calls quicksort_job on the task's range
\* (lines 43, 93, 98, 103, 118).
SortTake(w) ==
  /\ pc[w] = "loop"
  /\ \E i \in 1..Len(jobs) :
       /\ sk' = [sk EXCEPT ![w] = <<jobs[i]>>]
       /\ jobs' = SubSeq(jobs, 1, i - 1) \o SubSeq(jobs, i + 1, Len(jobs))
  /\ pc' = [pc EXCEPT ![w] = "q_call"]
  /\ UNCHANGED <<sortIdle, counter, prom, got, array, input, threshold, fr, spawns>>

\* Where a worker goes when a quicksort_job call returns: to the next inline
\* call, or out of the job to the wrapper's decrement (line 53).
AfterCall(rest) == IF rest = <<>> THEN "dec" ELSE "q_call"

\* Lines 66-76: entry of quicksort_job(left, right). The call returns at once
\* on a range of at most one element, sorts a tiny range with std::sort, and
\* otherwise sets l, r and pivot for the partition.
JobEnter(w) ==
  /\ pc[w] = "q_call"
  /\ LET c == Head(sk[w])
         rest == Tail(sk[w])
     IN /\ sk' = [sk EXCEPT ![w] = rest]
        /\ IF IsEmptyRange(c.left, c.right)
           THEN /\ pc' = [pc EXCEPT ![w] = AfterCall(rest)]
                /\ UNCHANGED <<array, fr>>
           ELSE IF IsTiny(c.left, c.right)
           THEN /\ array' = StdSort(array, c.left, c.right)
                /\ pc' = [pc EXCEPT ![w] = AfterCall(rest)]
                /\ UNCHANGED fr
           ELSE /\ fr' = [fr EXCEPT ![w] = [left |-> c.left, right |-> c.right,
                                            l |-> c.left, r |-> c.right,
                                            pivot |-> At(array, (c.left + c.right) \div 2),
                                            lo |-> (c.left + c.right) \div 2,
                                            hi |-> (c.left + c.right) \div 2]]
                /\ pc' = [pc EXCEPT ![w] = "q_part"]
                /\ UNCHANGED array
  /\ UNCHANGED <<sortIdle, counter, prom, got, input, threshold, jobs, spawns>>

\* Lines 77-84: one iteration of the do-while loop. A scan that leaves the
\* array has read outside it: undefined behaviour, kept as the state "ub".
PartitionIter(w) ==
  /\ pc[w] = "q_part"
  /\ LET f == fr[w]
         l1 == ScanUp(array, f.l, f.pivot)
         r1 == ScanDown(array, f.r, f.pivot)
         sw == NotCrossed(l1, r1)
         l2 == IF sw THEN l1 + 1 ELSE l1
         r2 == IF sw THEN r1 - 1 ELSE r1
     IN IF l1 \notin Idx(array) \/ r1 \notin Idx(array)
        THEN /\ pc' = [pc EXCEPT ![w] = "ub"]
             /\ UNCHANGED <<array, fr>>
        ELSE /\ array' = IF sw THEN Swap(array, l1, r1) ELSE array
             /\ fr' = [fr EXCEPT ![w].l = l2, ![w].r = r2,
                                 ![w].lo = Min({f.lo, f.l, r1}),
                                 ![w].hi = Max({f.hi, l1, f.r})]
             /\ pc' = [pc EXCEPT ![w] = IF NotCrossed(l2, r2) THEN "q_part" ELSE "q_branch"]
  /\ UNCHANGED <<sortIdle, counter, prom, got, input, threshold, jobs, sk, spawns>>

\* Lines 91-110: the range quicksort_job spawns as a task (none: <<>>), and
\* the ranges it recurses on inline, in the order of the calls.
SpawnedRanges(f) ==
  IF left_big(f) /\ right_big(f) THEN <<LeftRange(f)>>
  ELSE IF left_big(f) THEN <<LeftRange(f)>>
  ELSE IF right_big(f) THEN <<RightRange(f)>>
  ELSE <<>>
InlineRanges(f) ==
  IF left_big(f) /\ right_big(f) THEN <<RightRange(f)>>
  ELSE IF left_big(f) THEN <<RightRange(f)>>
  ELSE IF right_big(f) THEN <<LeftRange(f)>>
  ELSE <<LeftRange(f), RightRange(f)>>

\* Lines 86-110: after the partition, spawn_task_in_pool for at most one
\* sub-range (counter->fetch_add(1), then push_task), then the inline calls.
Branch(w) ==
  /\ pc[w] = "q_branch"
  /\ counter' = counter + Len(SpawnedRanges(fr[w]))
  /\ spawns' = spawns + Len(SpawnedRanges(fr[w]))
  /\ jobs' = jobs \o SpawnedRanges(fr[w])
  /\ sk' = [sk EXCEPT ![w] = InlineRanges(fr[w]) \o @]
  /\ fr' = [fr EXCEPT ![w] = NoFrame]
  /\ pc' = [pc EXCEPT ![w] = "q_call"]
  /\ UNCHANGED <<sortIdle, prom, got, array, input, threshold>>

SortStep(w) ==
  \/ SortTake(w)
  \/ JobEnter(w)
  \/ PartitionIter(w)
  \/ Branch(w)
  \/ Dec(w)
  \/ Final(w)

NextSort ==
  \/ SortAsync
  \/ FutWait
  \/ FutGet
  \/ \E w \in Workers : SortStep(w)

SpecSort == InitSort /\ [][NextSort]_vars

----------------------------------------------------------------------------
\* The sequence a is in ascending order; a and b hold the same elements, each
\* as many times.
IsSorted(a) == \A i \in 1..Len(a) : \A j \in i..Len(a) : a[i] <= a[j]
Occurrences(a, v) == Cardinality({i \in 1..Len(a) : a[i] = v})
IsPermutation(a, b) ==
  /\ Len(a) = Len(b)
  /\ \A i \in 1..Len(a) : Occurrences(a, a[i]) = Occurrences(b, a[i])

\* The output of the sequential baseline, main line 160: std::sort(arr2, arr2 + N).
Baseline == StdSort(input, 0, Len(input) - 1)

\* C11: when the completion signal has fired with success, the array is in
\* ascending order, is a permutation of the input, and equals what the
\* sequential baseline gives; no partition read outside the array; and the
\* signal never fires with an error.
C11_SortedOnSuccess ==
  /\ \A w \in Workers : pc[w] # "ub"
  /\ prom # "exception"
  /\ prom = "value" =>
       /\ IsSorted(array)
       /\ IsPermutation(array, input)
       /\ array = Baseline

\* Witness of C11: the scenario's input, with a threshold under which every
\* partition spawned a task, is sorted and the client got success.
C11_Witness ==
  /\ input = Scenario
  /\ threshold = 0
  /\ spawns >= 2
  /\ got = 0
  /\ array = <<1, 2, 3, 5, 8, 9>>

----------------------------------------------------------------------------
\* The push_task calls that have made their fetch_add.
Ticketed == {t \in Tasks : kind[t] # "none"
               /\ ~\E th \in Threads : arg[th] = t /\ pc[th] \in {"sp_count", "p_index"}}

\* m_index counts the fetch_adds: the next one is the k-th, k = m_index.
C12_Ticket == m_index = Cardinality(Ticketed)

\* The k-th fetch_add gives queue k mod n, whatever the queues hold.
C12_Index ==
  \A th \in Threads :
    (pc[th] = "p_index" /\ pc'[th] # "p_index") =>
      /\ idx'[th] = m_index % n
      /\ m_index' = m_index + 1
      /\ m_queues' = m_queues

\* The task goes to the front of that queue and no other queue changes; a
\* queue grows in no other step.
C12_Front ==
  /\ \A th \in Threads :
       (pc[th] = "p_push" /\ pc'[th] # "p_push") =>
         /\ m_queues'[idx[th]] = <<arg[th]>> \o m_queues[idx[th]]
         /\ \A q \in Workers \ {idx[th]} : m_queues'[q] = m_queues[q]
  /\ (\E q \in Workers : Len(m_queues'[q]) > Len(m_queues[q])) =>
       \E th \in Threads : pc[th] = "p_push" /\ pc'[th] = "p_notify"

\* The notification goes to that queue's condition variable: its owner, if it
\* is blocked in wait_for, is woken, and no other thread is.
C12_Notify ==
  \A th \in Threads :
    (pc[th] = "p_notify" /\ pc'[th] # "p_notify") =>
      /\ m_queues' = m_queues
      /\ \A w \in Workers \ {th} :
           pc'[w] = IF w = idx[th] /\ pc[w] = "blocked" THEN "woken" ELSE pc[w]

\* C12: push_task puts the k-th submitted task (k by fetch_add order) at the
\* front of queue k mod n, whatever the depth of the queues, notifies that
\* queue's condition variable, and changes no other queue.
C12_RoundRobin == []C12_Ticket /\ [][C12_Index /\ C12_Front /\ C12_Notify]_vars

\* Witness of C12: two workers; the client's tasks 1, 2, 3 (tickets 0, 1, 2)
\* went to queues 0, 1, 0, the third in front of the first, and the owner of
\* queue 0 was woken by the last notify.
C12_Witness ==
  /\ n = 2
  /\ m_index = 3
  /\ m_queues[0] = <<3, 1>>
  /\ m_queues[1] = <<2>>
  /\ pc[0] = "woken"
  /\ pc[MainT] = "idle"

----------------------------------------------------------------------------
\* C13: a worker in the steal loop is about to try one of the n - 1 queues
\* other than its own, the i-th of them being (w + 1 + i) mod n, and never its
\* own queue; the task it obtains is the one it runs next; and it goes on to
\* the idle wait only from the last of the other queues, found empty.
C13_StealOthersOnly ==
  /\ [](\A w \in Workers :
         pc[w] = "steal" => /\ stealI[w] < n - 1
                            /\ StealIdx(w, stealI[w]) # w)
  /\ [][\A w \in Workers :
          /\ (pc[w] = "steal" /\ pc'[w] = "call") =>
                /\ src'[w] # w
                /\ cur'[w] = back(m_queues[src'[w]])
          /\ (pc[w] = "steal" /\ pc'[w] = "wait") =>
                /\ stealI[w] = n - 2
                /\ m_queues[StealIdx(w, stealI[w])] = <<>>]_vars

----------------------------------------------------------------------------
\* A notification of worker w's condition variable is still to come: a
\* push_task onto queue w is before its notify_one, or the destructor is
\* before its notify_all on w's condition variable.
NotifyComing(w) ==
  \/ \E th \in Threads : pc[th] = "p_notify" /\ idx[th] = w
  \/ pc[MainT] = "d_notify" /\ dk <= w

\* C14: no wake-up is lost. A worker blocked in wait_for while its queue holds
\* a task or the shutdown flag is set has a notification coming, so it leaves
\* the wait without the timeout.
C14_NoLostWakeup ==
  \A w \in Workers : (pc[w] = "blocked" /\ WaitPred(w)) => NotifyComing(w)

\* The part of C14 about pushes: a worker blocked with a task in its own queue
\* has a notify_one coming.
PushWakes ==
  \A w \in Workers : (pc[w] = "blocked" /\ m_queues[w] # <<>>) => NotifyComing(w)

----------------------------------------------------------------------------
\* The wrapped tasks whose spawn has made its fetch_add and whose wrapper has
\* not made its fetch_sub: on the way to a queue, queued, or held by a worker
\* that is not past the decrement.
Counted == {t \in TreeTasks : Pending(t) /\ ~\E th \in Threads : arg[th] = t /\ pc[th] = "sp_count"}

\* The tasks of the tree that are queued or being executed.
QueuedOrExecuting == {t \in TreeTasks : Slots(t) # {} \/ \E w \in Workers : cur[w] = t /\ pc[w] # "final"}

\* C15: the pending count is never negative, equals the number of wrapped
\* tasks spawned and not yet decremented, and is not 0 while a task of the
\* tree is queued or executing.
C15_CountIsPending ==
  /\ counter >= 0
  /\ counter = Cardinality(Counted)
  /\ QueuedOrExecuting # {} => counter > 0

\* Witness of C15: the count is 2 with one task queued and one executing,
\* which is spawning a third and has not yet counted it.
C15_Witness ==
  /\ counter = 2
  /\ \E t \in TreeTasks : Slots(t) # {}
  /\ \E w \in Workers : pc[w] = "sp_count" /\ cur[w] \in TreeTasks
  /\ Cardinality(TreeTasks) = 3

----------------------------------------------------------------------------
\* The number of elements of a range, and the distance between its ends.
Elements(rg) == IF rg.right >= rg.left THEN rg.right - rg.left + 1 ELSE 0
Span(rg) == rg.right - rg.left

\* What the step after a partition by worker w does, for a notion big of a
\* sub-range exceeding the threshold: both big, the left sub-range becomes a
\* task and the right one is the next inline call; one big, that one becomes a
\* task and the other is the next inline call; none big, no task is created
\* and both are inline calls, left first. At most one task is created.
SpawnPolicy(big(_), w) ==
  LET L == [left |-> fr[w].left, right |-> fr[w].r]
      R == [left |-> fr[w].l, right |-> fr[w].right]
  IN /\ Len(jobs') <= Len(jobs) + 1
     /\ counter' = counter + (Len(jobs') - Len(jobs))
     /\ IF big(L) THEN jobs' = Append(jobs, L) /\ sk'[w] = <<R>> \o sk[w]
        ELSE IF big(R) THEN jobs' = Append(jobs, R) /\ sk'[w] = <<L>> \o sk[w]
        ELSE jobs' = jobs /\ sk'[w] = <<L, R>> \o sk[w]

\* Worker w leaves the partition and makes the step of lines 86-110.
Branches(w) == pc[w] = "q_branch" /\ pc'[w] # "q_branch"

ManyElements(rg) == Elements(rg) > threshold
LongSpan(rg) == Span(rg) > threshold

\* C16 as claimed: the spawn policy, a sub-range exceeding the threshold when
\* its number of elements does.
C16_SpawnBySize == [][\A w \in Workers : Branches(w) => SpawnPolicy(ManyElements, w)]_vars

\* C16 as amended: the spawn policy, a sub-range exceeding the threshold when
\* the distance between its last and first index (its number of elements
\* minus one) does.
C16_SpawnBySpan == [][\A w \in Workers : Branches(w) => SpawnPolicy(LongSpan, w)]_vars

\* Witness of C16: after a partition one task was spawned, on a sub-range
\* whose span exceeds a positive threshold, and the spawning worker is about
\* to process inline the other sub-range, which has threshold + 1 elements.
C16_Witness ==
  /\ threshold >= 1
  /\ spawns = 1
  /\ Len(jobs) = 1
  /\ Span(jobs[1]) > threshold
  /\ \E w \in Workers :
       /\ pc[w] = "q_call"
       /\ Len(sk[w]) = 1
       /\ Elements(sk[w][1]) = threshold + 1

----------------------------------------------------------------------------
\* The states of the worker loop: trying its own queue, trying to steal,
\* running a task (its body, the pushes the body makes, the wrapper's handler,
\* decrement and finalization), waiting on its condition variable, and out
\* of the loop.
SeekOwn == {"loop", "pop"}
SeekSteal == {"steal"}
Executing == {"call", "body", "sp_count", "p_index", "p_push", "p_notify", "catch", "dec", "final"}
Idle == {"wait", "wait_block", "blocked", "woken"}
Terminated == {"exit"}

\* The worker threads the constructor started.
Started == {w \in Workers : w < n}

\* C17: the shutdown flag never goes back to false; a worker leaves its loop
\* only in a step taken with the flag true, and is out of it only with the
\* flag true; while the flag is false every worker is trying its own queue,
\* trying to steal, executing a task or idle.
C17_FlagMonotonic ==
  /\ [][m_done => m_done']_vars
  /\ [][\A w \in Started : (pc[w] \notin Terminated /\ pc'[w] \in Terminated) => m_done]_vars
  /\ [](\A w \in Started : pc[w] \in Terminated => m_done)
  /\ [](~m_done => \A w \in Started : pc[w] \in SeekOwn \cup SeekSteal \cup Executing \cup Idle)

\* Witness of C17: the flag is set, one worker has left its loop and another
\* is still executing a task.
C17_Witness ==
  /\ m_done
  /\ \E w \in Started : pc[w] \in Terminated
  /\ \E w \in Started : pc[w] = "body"

----------------------------------------------------------------------------
\* C18: with the pool in service (the destructor is not called), task bodies
\* that end and fair scheduling, the completion signal of a tree that was
\* started eventually fires, with one worker or more and whatever tasks the
\* bodies spawn.
C18_TreeCompletes == TreeStarted ~> (prom # "unset")

\* Witness of C18: one worker; a tree of three tasks, the children spawned by
\* running tasks and run by the same worker, has completed and the waiter
\* has its outcome.
C18_Witness ==
  /\ n = 1
  /\ Cardinality(TreeTasks) = 3
  /\ \A t \in TreeTasks : runs[t] = 1
  /\ prom # "unset"
  /\ got # -1

----------------------------------------------------------------------------
(***************************************************************************)
(* The locks of ThreadPool.h and main.cpp, lock and unlock as steps of     *)
(* their own.  What the queues hold is left open: a pop or a steal may     *)
(* find a task or not, a wait_for predicate may hold or not, a body may    *)
(* push, return or throw, a decrement may be the last or not.  The flag is *)
(* not set.  The mutex a step locks or unlocks is the one the code names.  *)
(***************************************************************************)
lockIdle == <<n, m_queues, m_done, cur, src, arg, dk, kind, treeVars, got,
              histVars, takeVars, sortVars>>

\* std::lock_guard / std::unique_lock: the constructor returns once the
\* mutex is free, and holds it; the destructor frees it.
Lock(th, m) == holder[m] = NoHolder /\ holder' = [holder EXCEPT ![m] = th]
Unlock(th, m) == holder[m] = th /\ holder' = [holder EXCEPT ![m] = NoHolder]

\* Where a worker's steps go next.
Goto(th, label) == pc' = [pc EXCEPT ![th] = label]

\* try_pop_from_queue, line 84: lock_guard on the worker's own queue mutex.
LPopLock(w) ==
  /\ pc[w] = "pop"
  /\ Lock(w, w)
  /\ Goto(w, "pop_locked")
  /\ UNCHANGED <<lockIdle, m_index, idx, stealI>>

\* Mutant of LPopUnlock: the task is run inside the lock_guard's scope.
LPopUnlock_keep(w) ==
  /\ pc[w] = "pop_locked"
  /\ \/ Goto(w, "body") /\ UNCHANGED holder
     \/ Goto(w, "steal") /\ Unlock(w, w)
  /\ UNCHANGED <<lockIdle, m_index, idx, stealI>>

\* try_pop_from_queue, lines 85-89: the function returns, with a task
\* (line 59: task()) or without (line 64: the steal loop); the guard is gone.
LPopUnlock(w) ==
  /\ pc[w] = "pop_locked"
  /\ Unlock(w, w)
  /\ \/ Goto(w, "body")
     \/ Goto(w, "steal")
  /\ UNCHANGED <<lockIdle, m_index, idx, stealI>>

\* try_steal_from_queue, line 93: lock_guard on the victim's queue mutex.
LStealLock(w) ==
  /\ pc[w] = "steal"
  /\ Lock(w, StealIdx(w, stealI[w]))
  /\ Goto(w, "steal_locked")
  /\ UNCHANGED <<lockIdle, m_index, idx, stealI>>

\* try_steal_from_queue, lines 94-98, and the loop of lines 64-72: with a
\* task, task(); without, the next victim, or the idle wait after the last.
LStealUnlock(w) ==
  /\ pc[w] = "steal_locked"
  /\ Unlock(w, StealIdx(w, stealI[w]))
  /\ \/ Goto(w, "body") /\ stealI' = [stealI EXCEPT ![w] = 0]
     \/ IF stealI[w] + 1 < StealBound
        THEN Goto(w, "steal") /\ stealI' = [stealI EXCEPT ![w] = @ + 1]
        ELSE Goto(w, "wait") /\ stealI' = [stealI EXCEPT ![w] = 0]
  /\ UNCHANGED <<lockIdle, m_index, idx>>

\* Line 75: unique_lock on the worker's own queue mutex.
LWaitLock(w) ==
  /\ pc[w] = "wait"
  /\ Lock(w, w)
  /\ Goto(w, "wait_locked")
  /\ UNCHANGED <<lockIdle, m_index, idx, stealI>>

\* Line 76: wait_for finds its predicate false, frees the mutex and blocks.
LWaitBlock(w) ==
  /\ pc[w] = "wait_locked"
  /\ Unlock(w, w)
  /\ Goto(w, "blocked")
  /\ UNCHANGED <<lockIdle, m_index, idx, stealI>>

\* Line 76: notified or timed out, wait_for locks the mutex again.
LWaitWake(w) ==
  /\ pc[w] \in {"blocked", "woken"}
  /\ Lock(w, w)
  /\ Goto(w, "wait_locked")
  /\ UNCHANGED <<lockIdle, m_index, idx, stealI>>

\* Lines 76-79: wait_for returns and the unique_lock's scope ends.
LWaitReturn(w) ==
  /\ pc[w] = "wait_locked"
  /\ Unlock(w, w)
  /\ Goto(w, "loop")
  /\ UNCHANGED <<lockIdle, m_index, idx, stealI>>

\* A thread calls push_task: the client, or a task body through
\* spawn_task_in_pool (main.cpp lines 40-41).
LPushCall(th) ==
  /\ pc[th] = IF th = MainT THEN "idle" ELSE "body"
  /\ m_index < MaxTasks
  /\ Goto(th, "p_index")
  /\ UNCHANGED <<lockIdle, m_index, idx, stealI, holder>>

\* push_task, line 46: lock_guard on the destination's queue mutex.
LPushLock(th) ==
  /\ pc[th] = "p_push"
  /\ Lock(th, idx[th])
  /\ Goto(th, "push_locked")
  /\ UNCHANGED <<lockIdle, m_index, idx, stealI>>

\* push_task, lines 47-48: push_front, and the guard's scope ends.
LPushUnlock(th) ==
  /\ pc[th] = "push_locked"
  /\ Unlock(th, idx[th])
  /\ Goto(th, "p_notify")
  /\ UNCHANGED <<lockIdle, m_index, idx, stealI>>

\* The task's body is over: a bare task returns to the loop (line 60), a
\* wrapped one returns to its wrapper (main.cpp line 43) or throws (line 44).
LBodyEnd(w) ==
  /\ pc[w] = "body"
  /\ \/ Goto(w, AfterTask)
     \/ Goto(w, "dec")
     \/ Goto(w, "catch")
  /\ UNCHANGED <<lockIdle, m_index, idx, stealI, holder>>

\* main.cpp line 46: lock_guard on except_mtx in the handler.
LCatchLock(w) ==
  /\ pc[w] = "catch"
  /\ Lock(w, ExceptMtx)
  /\ Goto(w, "catch_locked")
  /\ UNCHANGED <<lockIdle, m_index, idx, stealI>>

\* main.cpp lines 47-51: the handler's scope ends.
LCatchUnlock(w) ==
  /\ pc[w] = "catch_locked"
  /\ Unlock(w, ExceptMtx)
  /\ Goto(w, "dec")
  /\ UNCHANGED <<lockIdle, m_index, idx, stealI>>

\* main.cpp lines 53-54: fetch_sub; the last wrapper goes on to finalize.
LDec(w) ==
  /\ pc[w] = "dec"
  /\ \/ Goto(w, AfterTask)
     \/ Goto(w, "final")
  /\ UNCHANGED <<lockIdle, m_index, idx, stealI, holder>>

\* main.cpp line 55: lock_guard on except_mtx in the finalization.
LFinalLock(w) ==
  /\ pc[w] = "final"
  /\ Lock(w, ExceptMtx)
  /\ Goto(w, "final_locked")
  /\ UNCHANGED <<lockIdle, m_index, idx, stealI>>

\* main.cpp lines 56-61: the promise is set and the scope ends.
LFinalUnlock(w) ==
  /\ pc[w] = "final_locked"
  /\ Unlock(w, ExceptMtx)
  /\ Goto(w, AfterTask)
  /\ UNCHANGED <<lockIdle, m_index, idx, stealI>>

LWorkerStep(w) ==
  \/ LoopTest(w)
  \/ LPopLock(w)
  \/ LPopUnlock(w)
  \/ LStealLock(w)
  \/ LStealUnlock(w)
  \/ LWaitLock(w)
  \/ LWaitBlock(w)
  \/ LWaitWake(w)
  \/ LWaitReturn(w)
  \/ LBodyEnd(w)
  \/ LCatchLock(w)
  \/ LCatchUnlock(w)
  \/ LDec(w)
  \/ LFinalLock(w)
  \/ LFinalUnlock(w)

LPushStep(th) ==
  \/ LPushCall(th)
  \/ PushIndex(th)
  \/ LPushLock(th)
  \/ LPushUnlock(th)
  \/ PushNotify(th)

NextLocks ==
  \/ \E w \in Workers : LWorkerStep(w)
  \/ \E th \in Threads : LPushStep(th)

SpecLocks == Init /\ [][NextLocks]_vars

----------------------------------------------------------------------------
\* The mutexes thread th holds, and the one it is about to lock (none: -1).
HeldBy(th) == {m \in Mutexes : holder[m] = th}
NoMutex == -1
Wants(th) ==
  IF pc[th] \in {"pop", "wait", "blocked", "woken"} THEN th
  ELSE IF pc[th] = "steal" THEN StealIdx(th, stealI[th])
  ELSE IF pc[th] = "p_push" THEN idx[th]
  ELSE IF pc[th] \in {"catch", "final"} THEN ExceptMtx
  ELSE NoMutex

\* Worker w is inside task(): in the body, in a push_task the body makes,
\* or in the wrapper's handler, decrement or finalization.
InTask(w) == pc[w] \in {"body", "p_index", "p_push", "push_locked", "p_notify",
                        "catch", "catch_locked", "dec", "final", "final_locked"}

\* The steps of thread th.
LThreadStep(th) == (th \in Workers /\ LWorkerStep(th)) \/ LPushStep(th)

\* C19: no thread holds two mutexes; a thread that is about to lock a mutex
\* holds none; a worker inside a task holds no queue mutex but the one of a
\* push_task in progress; and the holder of a mutex is never itself stopped,
\* so no thread waits for a mutex for ever: no state is a deadlock on locks.
C19_LockDiscipline ==
  /\ \A th \in Threads : Cardinality(HeldBy(th)) <= 1
  /\ \A th \in Threads : Wants(th) # NoMutex => HeldBy(th) = {}
  /\ \A w \in Workers : InTask(w) =>
       HeldBy(w) \cap Workers = IF pc[w] = "push_locked" THEN {idx[w]} ELSE {}
  /\ \A m \in Mutexes : holder[m] # NoHolder =>
       /\ Wants(holder[m]) = NoMutex
       /\ ENABLED LThreadStep(holder[m])

\* Witness of C19: a task body running on worker w is inside push_task onto
\* w's own queue, holding that queue's mutex, while the client waits for the
\* same mutex.
C19_Witness ==
  \E w \in Workers :
    /\ pc[w] = "push_locked"
    /\ idx[w] = w
    /\ holder[w] = w
    /\ pc[MainT] = "p_push"
    /\ idx[MainT] = w

----------------------------------------------------------------------------
\* The ranges of a live task: a queued task has the range it was spawned
\* with; a task that a worker executes has the range of the quicksort_job
\* call it is partitioning and the ranges of its inline calls still to make.
Partitioning(w) == pc[w] \in {"q_part", "q_branch"}
RangesOf(w) ==
  {sk[w][i] : i \in 1..Len(sk[w])}
    \cup (IF Partitioning(w) THEN {[left |-> fr[w].left, right |-> fr[w].right]} ELSE {})

\* Two ranges share no index.
Disjoint(a, b) == a.right < a.left \/ b.right < b.left \/ a.right < b.left \/ b.right < a.left

\* C20: the ranges of distinct live tasks of the tree, queued or executing,
\* are pairwise disjoint; a partitioning call accesses the array only inside
\* its own range; and the partition ends with r < l, both sub-ranges inside
\* the range partitioned. So no element is accessed by two live tasks.
C20_DisjointRanges ==
  /\ \A i \in 1..Len(jobs) : \A j \in 1..Len(jobs) : i # j => Disjoint(jobs[i], jobs[j])
  /\ \A i \in 1..Len(jobs) : \A w \in Workers : \A rg \in RangesOf(w) : Disjoint(jobs[i], rg)
  /\ \A w \in Workers : \A v \in Workers \ {w} :
       \A a \in RangesOf(w) : \A b \in RangesOf(v) : Disjoint(a, b)
  /\ \A w \in Workers : \A i \in 1..Len(sk[w]) : \A j \in 1..Len(sk[w]) :
       i # j => Disjoint(sk[w][i], sk[w][j])
  /\ \A w \in Workers : Partitioning(w) =>
       /\ fr[w].left <= fr[w].lo /\ fr[w].hi <= fr[w].right
       /\ \A i \in 1..Len(sk[w]) : Disjoint(sk[w][i], [left |-> fr[w].left, right |-> fr[w].right])
  /\ \A w \in Workers : pc[w] = "q_branch" =>
       /\ fr[w].r < fr[w].l
       /\ fr[w].left - 1 <= fr[w].r
       /\ fr[w].l <= fr[w].right + 1

\* Witness of C20: a spawned task and the inline continuation of its parent
\* are partitioning their sub-ranges at the same time on two workers, and
\* both have swapped elements.
C20_Witness ==
  \E w \in Workers : \E v \in Workers \ {w} :
    /\ pc[w] = "q_part"
    /\ pc[v] = "q_part"
    /\ fr[w].l > fr[w].left
    /\ fr[v].l > fr[v].left
    /\ spawns >= 1

=============================================================================
